---- MODULE Spec2Model ----
(***************************************************************************)
(* Model of vpFeatureBuilder::create for vpFeaturePoint                    *)
(* (ViSP/src/tracking/feature-builder/vpFeatureBuilderPoint.cpp).          *)
(*                                                                         *)
(* A caller owns one vpFeaturePoint s and repeatedly calls one of the five *)
(* create overloads on it.  A call is two steps: the caller forms the      *)
(* arguments (a Call step), then the overload runs to its return or to    *)
(* the exception that leaves it (an Exec step).                            *)
(*                                                                         *)
(* double values are modelled as exact rationals <<n, d>> in lowest terms  *)
(* with d > 0, so floating-point rounding is abstracted away.              *)
(***************************************************************************)
EXTENDS Integers, FiniteSets, Sequences, TLC

VARIABLES pc, op, args, s, err, depth3D

vars == <<pc, op, args, s, err, depth3D>>

----------------------------------------------------------------------------
(* Bounds of the explored inputs *)

\* cP[2] of the explored points ranges over -1..MaxCP2 and the value 6
MaxCP2 == 2

\* pixel columns/rows of the explored tracker observations: MaxPix values each
MaxPix == 2

----------------------------------------------------------------------------
(* double arithmetic, as exact rationals *)

Abs(n) == IF n < 0 THEN -n ELSE n

RECURSIVE GCD(_, _)
GCD(a, b) == IF b = 0 THEN a ELSE GCD(b, a % b)

\* the double n/d, d # 0
Rat(n, d) ==
  LET g == GCD(Abs(n), Abs(d))
      sg == IF d < 0 THEN -1 ELSE 1
  IN  <<(sg * n) \div g, Abs(d) \div g>>

Zero == <<0, 1>>

RatAdd(a, b) == Rat(a[1] * b[2] + b[1] * a[2], a[2] * b[2])
RatSub(a, b) == Rat(a[1] * b[2] - b[1] * a[2], a[2] * b[2])
RatMul(a, b) == Rat(a[1] * b[1], a[2] * b[2])
RatDiv(a, b) == Rat(a[1] * b[2], a[2] * b[1])
RatLt(a, b) == a[1] * b[2] < b[1] * a[2]
fabs(a) == <<Abs(a[1]), a[2]>>

\* 1e-6 is 1/InvEps
InvEps == 1000000
Eps == Rat(1, InvEps)

----------------------------------------------------------------------------
(* Collaborating value types *)

\* depth of a vpFeaturePoint no set_Z has written yet
Unset == <<0, 0>>

\* vpFeaturePoint after construction
vpFeaturePoint == [x |-> Zero, y |-> Zero, Z |-> Unset]

set_x(f, v) == [f EXCEPT !.x = v]
set_y(f, v) == [f EXCEPT !.y = v]
set_Z(f, v) == [f EXCEPT !.Z = v]
get_Z(f) == f.Z

\* vpPoint accessors: image-plane coordinates p[0], p[1]
get_x(p) == p.x
get_y(p) == p.y

\* vpDot::getCog, vpDot2::getCog
getCog(d) == d.cog

\* vpImagePoint accessors
get_u(ip) == Rat(ip.u, 1)
get_v(ip) == Rat(ip.v, 1)

\* vpMeterPixelConversion::convertPoint(cam, x, y, u, v)
vpMeterPixelConversion_convertPoint(cam, x, y) ==
  [u |-> RatAdd(RatMul(x, Rat(cam.px, 1)), Rat(cam.u0, 1)),
   v |-> RatAdd(RatMul(y, Rat(cam.py, 1)), Rat(cam.v0, 1))]

\* vpPixelMeterConversion::convertPoint(cam, u, v, x, y)
vpPixelMeterConversion_convertPoint(cam, u, v) ==
  [x |-> RatDiv(RatSub(u, Rat(cam.u0, 1)), Rat(cam.px, 1)),
   y |-> RatDiv(RatSub(v, Rat(cam.v0, 1)), Rat(cam.py, 1))]

\* vpPixelMeterConversion::convertPoint(cam, iP, x, y)
vpPixelMeterConversion_convertImagePoint(cam, ip) ==
  vpPixelMeterConversion_convertPoint(cam, get_u(ip), get_v(ip))

----------------------------------------------------------------------------
(* Exceptions *)

NoError == [code |-> "none", msg |-> ""]

vpFeatureException(code, msg) == [code |-> code, msg |-> msg]

BehindMsg == "Point is behind the camera "
NullMsg == "Point Z coordinates is null"

----------------------------------------------------------------------------
(* The five overloads of vpFeatureBuilder::create.  Each yields the        *)
(* feature as the call leaves it and the exception that leaves the call.   *)

\* create(s, cam, vpDot) that also resets the depth to 0
create_vpDot_resetZ(f, cam, d) ==
  LET cog == getCog(d)
      m == vpPixelMeterConversion_convertImagePoint(cam, cog)
  IN  [s |-> set_Z(set_y(set_x(f, m.x), m.y), Zero), err |-> NoError]

\* create(s, cam, vpDot)
create_vpDot(f, cam, d) ==
  LET cog == getCog(d)
      m == vpPixelMeterConversion_convertImagePoint(cam, cog)
  IN  [s |-> set_y(set_x(f, m.x), m.y), err |-> NoError]

\* create(s, cam, vpDot2) that takes the centroid's row for its column
create_vpDot2_swapped(f, cam, d) ==
  LET cog == getCog(d)
      m == vpPixelMeterConversion_convertImagePoint(cam,
             [u |-> cog.v, v |-> cog.u])
  IN  [s |-> set_y(set_x(f, m.x), m.y), err |-> NoError]

\* create(s, cam, vpDot2)
create_vpDot2(f, cam, d) ==
  LET cog == getCog(d)
      m == vpPixelMeterConversion_convertImagePoint(cam, cog)
  IN  [s |-> set_y(set_x(f, m.x), m.y), err |-> NoError]

\* create(s, cam, vpImagePoint) that also sets the depth to 1
create_vpImagePoint_unitZ(f, cam, ip) ==
  LET m == vpPixelMeterConversion_convertImagePoint(cam, ip)
  IN  [s |-> set_Z(set_y(set_x(f, m.x), m.y), <<1, 1>>), err |-> NoError]

\* create(s, cam, vpImagePoint)
create_vpImagePoint(f, cam, ip) ==
  LET m == vpPixelMeterConversion_convertImagePoint(cam, ip)
  IN  [s |-> set_y(set_x(f, m.x), m.y), err |-> NoError]

\* create(s, vpPoint) whose second test is fabs(Z) <= 1e-6
create_vpPoint_inclusive(f, p) ==
  LET f1 == set_x(f, get_x(p))
      f2 == set_y(f1, get_y(p))
      f3 == set_Z(f2, Rat(p.cP2, p.cP3))
  IN  IF RatLt(get_Z(f3), Zero)
      THEN [s |-> f3,
            err |-> vpFeatureException("badInitializationError", BehindMsg)]
      ELSE IF ~RatLt(Eps, fabs(get_Z(f3)))
      THEN [s |-> f3,
            err |-> vpFeatureException("badInitializationError", NullMsg)]
      ELSE [s |-> f3, err |-> NoError]

\* create(s, vpPoint) with the two tests in the other order
create_vpPoint_reordered(f, p) ==
  LET f1 == set_x(f, get_x(p))
      f2 == set_y(f1, get_y(p))
      f3 == set_Z(f2, Rat(p.cP2, p.cP3))
  IN  IF RatLt(fabs(get_Z(f3)), Eps)
      THEN [s |-> f3,
            err |-> vpFeatureException("badInitializationError", NullMsg)]
      ELSE IF RatLt(get_Z(f3), Zero)
      THEN [s |-> f3,
            err |-> vpFeatureException("badInitializationError", BehindMsg)]
      ELSE [s |-> f3, err |-> NoError]

\* create(s, vpPoint)
create_vpPoint(f, p) ==
  LET f1 == set_x(f, get_x(p))
      f2 == set_y(f1, get_y(p))
      f3 == set_Z(f2, Rat(p.cP2, p.cP3))
  IN  IF RatLt(get_Z(f3), Zero)
      THEN [s |-> f3,
            err |-> vpFeatureException("badInitializationError", BehindMsg)]
      ELSE IF RatLt(fabs(get_Z(f3)), Eps)
      THEN [s |-> f3,
            err |-> vpFeatureException("badInitializationError", NullMsg)]
      ELSE [s |-> f3, err |-> NoError]

\* create(s, goodCam, wrongCam, vpPoint) with the depth tests of create(s, p)
create_noisy_checked(f, goodCam, wrongCam, p) ==
  LET x == p.x
      y == p.y
      f1 == set_Z(f, Rat(p.cP2, p.cP3))
      uv == vpMeterPixelConversion_convertPoint(goodCam, x, y)
      xy == vpPixelMeterConversion_convertPoint(wrongCam, uv.u, uv.v)
  IN  IF RatLt(get_Z(f1), Zero) \/ RatLt(fabs(get_Z(f1)), Eps)
      THEN [s |-> f1,
            err |-> vpFeatureException("badInitializationError", BehindMsg)]
      ELSE [s |-> set_y(set_x(f1, xy.x), xy.y), err |-> NoError]

\* create(s, goodCam, wrongCam, vpPoint) that stores the pixel coordinates
create_noisy_pixels(f, goodCam, wrongCam, p) ==
  LET x == p.x
      y == p.y
      f1 == set_Z(f, Rat(p.cP2, p.cP3))
      uv == vpMeterPixelConversion_convertPoint(goodCam, x, y)
  IN  [s |-> set_y(set_x(f1, uv.u), uv.v), err |-> NoError]

\* create(s, goodCam, wrongCam, vpPoint) with the two cameras exchanged
create_noisy_exchanged(f, goodCam, wrongCam, p) ==
  LET x == p.x
      y == p.y
      f1 == set_Z(f, Rat(p.cP2, p.cP3))
      uv == vpMeterPixelConversion_convertPoint(wrongCam, x, y)
      xy == vpPixelMeterConversion_convertPoint(goodCam, uv.u, uv.v)
  IN  [s |-> set_y(set_x(f1, xy.x), xy.y), err |-> NoError]

\* create(s, goodCam, wrongCam, vpPoint)
create_noisy(f, goodCam, wrongCam, p) ==
  LET x == p.x
      y == p.y
      f1 == set_Z(f, Rat(p.cP2, p.cP3))
      uv == vpMeterPixelConversion_convertPoint(goodCam, x, y)
      xy == vpPixelMeterConversion_convertPoint(wrongCam, uv.u, uv.v)
  IN  [s |-> set_y(set_x(f1, xy.x), xy.y), err |-> NoError]

----------------------------------------------------------------------------
(* Explored argument values *)

Kref == [px |-> 600, py |-> 600, u0 |-> 320, v0 |-> 240]
Kpert == [px |-> 610, py |-> 590, u0 |-> 322, v0 |-> 238]
Cams == {Kref, Kpert}

ImagePoints == {[u |-> 320 + 60 * i, v |-> 210 + 30 * j] :
                  i \in 0..(MaxPix - 1), j \in 0..(MaxPix - 1)}
Dots == {[cog |-> ip] : ip \in ImagePoints}

CP2Values == (-1..MaxCP2) \cup {6}
CP3Values == {-1000, 5, 1000, 1000000, 2000000}
XYValues == {<<Rat(1, 10), Rat(-1, 20)>>, <<Zero, Zero>>}
Points == {[x |-> xy[1], y |-> xy[2], cP2 |-> z, cP3 |-> w] :
             xy \in XYValues, z \in CP2Values, w \in CP3Values}

NoCam == [px |-> 1, py |-> 1, u0 |-> 0, v0 |-> 0]
NoImagePoint == [u |-> 0, v |-> 0]
NoDot == [cog |-> NoImagePoint]
NoPoint == [x |-> Zero, y |-> Zero, cP2 |-> 1, cP3 |-> 1]
NoArgs == [cam |-> NoCam, wrongCam |-> NoCam, dot |-> NoDot, dot2 |-> NoDot,
           ip |-> NoImagePoint, p |-> NoPoint]

PixelOps == {"dot", "dot2", "ip"}

----------------------------------------------------------------------------
(* The caller *)

Init ==
  /\ pc = "idle"
  /\ op = "none"
  /\ args = NoArgs
  /\ s = vpFeaturePoint
  /\ err = NoError
  /\ depth3D = Unset

Call(o, a) ==
  /\ pc = "idle"
  /\ pc' = "called"
  /\ op' = o
  /\ args' = a
  /\ err' = NoError
  /\ UNCHANGED <<s, depth3D>>

CallDot ==
  \E c \in Cams, d \in Dots :
    Call("dot", [NoArgs EXCEPT !.cam = c, !.dot = d])

CallDot2 ==
  \E c \in Cams, d \in Dots :
    Call("dot2", [NoArgs EXCEPT !.cam = c, !.dot2 = d])

CallImagePoint ==
  \E c \in Cams, ip \in ImagePoints :
    Call("ip", [NoArgs EXCEPT !.cam = c, !.ip = ip])

CallPoint ==
  \E p \in Points :
    Call("point", [NoArgs EXCEPT !.p = p])

CallNoisy ==
  \E c \in Cams, w \in Cams, p \in Points :
    Call("noisy", [NoArgs EXCEPT !.cam = c, !.wrongCam = w, !.p = p])

Return(r) ==
  /\ s' = r.s
  /\ err' = r.err
  /\ pc' = "idle"
  /\ UNCHANGED <<op, args>>

ExecDot ==
  /\ pc = "called" /\ op = "dot"
  /\ Return(create_vpDot(s, args.cam, args.dot))
  /\ UNCHANGED depth3D

ExecDot2 ==
  /\ pc = "called" /\ op = "dot2"
  /\ Return(create_vpDot2(s, args.cam, args.dot2))
  /\ UNCHANGED depth3D

ExecImagePoint ==
  /\ pc = "called" /\ op = "ip"
  /\ Return(create_vpImagePoint(s, args.cam, args.ip))
  /\ UNCHANGED depth3D

ExecPoint ==
  /\ pc = "called" /\ op = "point"
  /\ Return(create_vpPoint(s, args.p))
  /\ depth3D' = Rat(args.p.cP2, args.p.cP3)

ExecNoisy ==
  /\ pc = "called" /\ op = "noisy"
  /\ Return(create_noisy(s, args.cam, args.wrongCam, args.p))
  /\ depth3D' = Rat(args.p.cP2, args.p.cP3)

Next ==
  \/ CallDot
  \/ CallDot2
  \/ CallImagePoint
  \/ CallPoint
  \/ CallNoisy
  \/ ExecDot
  \/ ExecDot2
  \/ ExecImagePoint
  \/ ExecPoint
  \/ ExecNoisy

Spec == Init /\ [][Next]_vars

TypeOK ==
  /\ pc \in {"idle", "called"}
  /\ op \in PixelOps \cup {"none", "point", "noisy"}
  /\ s.Z = Unset \/ s.Z[2] > 0

----------------------------------------------------------------------------
(* Properties *)

\* the last call was overload o and has returned or thrown
Done(o) == pc = "idle" /\ op = o

\* the rational z is the depth cP[2]/cP[3] of the point p
DepthIs(z, p) == z[2] > 0 /\ z[1] * p.cP3 = p.cP2 * z[2]

\* cP[2]/cP[3] < 0
DepthNeg(p) == p.cP2 * p.cP3 < 0

\* |cP[2]/cP[3]| < 1e-6
DepthBelowFloor(p) == Abs(p.cP2) * InvEps < Abs(p.cP3)

\* cP[2]/cP[3] > 0 and |cP[2]/cP[3]| >= 1e-6
ValidDepth(p) == ~DepthNeg(p) /\ ~DepthBelowFloor(p)

\* the pixel the last pixel-only call was given
GivenPixel ==
  IF op = "dot" THEN args.dot.cog
  ELSE IF op = "dot2" THEN args.dot2.cog
  ELSE args.ip

\* C1: create(s, p) on a point of depth d > 0, |d| >= 1e-6 (d = 1e-6
\* included) raises nothing and leaves s.Z = d, s.x = p.x, s.y = p.y.
C1_ValidDepthConstructs ==
  (Done("point") /\ ValidDepth(args.p)) =>
    /\ err = NoError
    /\ DepthIs(s.Z, args.p)
    /\ s.x = args.p.x
    /\ s.y = args.p.y

C1_Witness ==
  /\ Done("point")
  /\ args.p.cP2 = 1 /\ args.p.cP3 = InvEps
  /\ err = NoError
  /\ s.Z = <<1, InvEps>>

\* C2: when create(s, p) fails its depth check, s is what it was before the
\* call: it does not take the offending depth.
C2_FailedCreateLeavesFeature ==
  [][(pc = "called" /\ op = "point" /\ err' # NoError) => s' = s]_vars

\* C3: create(s, p) fails as behind the camera exactly for d < 0, as
\* near-zero depth exactly for 0 <= d < 1e-6, and not at all otherwise.
C3_DepthCheckOrder ==
  Done("point") =>
    /\ err.msg = BehindMsg <=> DepthNeg(args.p)
    /\ err.msg = NullMsg <=> (~DepthNeg(args.p) /\ DepthBelowFloor(args.p))
    /\ err = NoError <=> ValidDepth(args.p)

C3_Witness ==
  /\ Done("point")
  /\ args.p.cP2 = -1 /\ args.p.cP3 = 2 * InvEps
  /\ err.msg = BehindMsg

\* C4: the error raised for a behind-camera depth has a different error
\* kind from the error raised for any near-zero depth.
C4_ErrorKindsDiffer ==
  (Done("point") /\ err # NoError /\ DepthNeg(args.p)) =>
    \A q \in Points :
      (~DepthNeg(q) /\ DepthBelowFloor(q)) =>
        create_vpPoint(s, q).err.code # err.code

\* C5 as stated: after a pixel-only construction the feature's depth is
\* unset, whatever ran on the object before.
C5_PixelOnlyDepthUnset ==
  (pc = "idle" /\ op \in PixelOps) => s.Z = Unset

\* C5 as amended: after a sequence of builder operations that ends with a
\* pixel-only construction the feature's depth is unset only if no 3D
\* construction ran on the object earlier; otherwise it is the depth the
\* latest 3D construction (plain or noisy) wrote.
C5_PixelOnlyDepthIsLast3D ==
  (pc = "idle" /\ op \in PixelOps) => s.Z = depth3D

C5_Witness ==
  /\ pc = "idle" /\ op \in PixelOps
  /\ depth3D = <<-1, 1000>>
  /\ s.Z # Unset

\* C6: the noisy construction raises no error for any depth, valid or not,
\* and leaves s.Z = cP[2]/cP[3] whatever the two cameras are.
C6_NoisyNoDepthCheck ==
  Done("noisy") => (err = NoError /\ DepthIs(s.Z, args.p))

C6_Witness ==
  /\ Done("noisy")
  /\ DepthNeg(args.p)
  /\ args.cam # args.wrongCam
  /\ err = NoError

C8_NoiseExample ==
  (/\ Done("noisy")
   /\ args.cam = Kref /\ args.wrongCam = Kpert
   /\ args.p.x = <<1, 10>> /\ args.p.y = <<-1, 20>>
   /\ args.p.cP2 = 6 /\ args.p.cP3 = 5) =>
    /\ s.x # <<1, 10>>
    /\ s.y # <<-1, 20>>
    /\ s.x[1] * 610 = 58 * s.x[2]
    /\ s.y[1] * 590 = (-28) * s.y[2]
    /\ s.Z = <<6, 5>>

C8_Witness ==
  /\ Done("noisy")
  /\ args.cam = Kref /\ args.wrongCam = Kpert
  /\ args.p.x = <<1, 10>> /\ args.p.y = <<-1, 20>>
  /\ args.p.cP2 = 6 /\ args.p.cP3 = 5
  /\ s.Z = <<6, 5>>

\* C9: whichever pixel-only overload ran, (x, y) is the pixel-to-metric
\* conversion of the given pixel with the given camera, and the other two
\* overloads given that pixel leave the same feature.
C9_PixelEntryPointsAgree ==
  (pc = "idle" /\ op \in PixelOps) =>
    /\ s.x[2] > 0 /\ s.x[1] * args.cam.px = (GivenPixel.u - args.cam.u0) * s.x[2]
    /\ s.y[2] > 0 /\ s.y[1] * args.cam.py = (GivenPixel.v - args.cam.v0) * s.y[2]
    /\ create_vpDot(s, args.cam, [cog |-> GivenPixel]).s = s
    /\ create_vpDot2(s, args.cam, [cog |-> GivenPixel]).s = s
    /\ create_vpImagePoint(s, args.cam, GivenPixel).s = s

C9_Witness ==
  /\ Done("dot2")
  /\ args.cam = Kpert
  /\ args.dot2.cog = [u |-> 380, v |-> 210]
  /\ s.x = <<29, 305>>

\* C10: a pixel-only construction leaves the feature's depth and its
\* arguments (camera parameters, tracker observation) as they were.
C10_PixelOnlyFrame ==
  [][(pc = "called" /\ op \in PixelOps) =>
       (s'.Z = s.Z /\ args' = args)]_vars

C10_Witness ==
  /\ Done("ip")
  /\ s.Z = <<6, 5>>
  /\ s.x # <<1, 10>>
====
